---- MODULE Spec2Model ----
(***************************************************************************)
(* A model of the LV position extractor (src/src/PDFPositionExtractor.py)  *)
(* and of the header and section parts of the metadata extractor           *)
(* (src/src/MetaDataExtractor.py).                                         *)
(*                                                                         *)
(* A Python str is a sequence of one-character strings, so that the        *)
(* regular expressions and string methods of the source are computed       *)
(* character by character.  None / NaN / pd.NA are the one value None.     *)
(***************************************************************************)
EXTENDS Integers, Sequences, FiniteSets, TLC

VARIABLES
    \* PDFPositionExtractor: the attributes of self
    rows, section, current, section_hint, metadata_header,
    \* extract(): the document being read and the position of the loops
    num_pages, page_number, line, nlines, pc, opened,
    \* main(): the DataFrame
    df,
    \* LVMetadataExtractor: the document's page headers and the attributes of self
    pdf_pages, headers_first_meta, header_meta,
    \* LVMetadataExtractor: the text of the document's pages and the two sections of self
    pdf_text, vorbemerkung, schlussbestimmung,
    \* the last call of a method under test: its name and arguments, and its outcome
    call, ret

extractor_vars == <<rows, section, current, section_hint, metadata_header>>
run_vars == <<num_pages, page_number, line, nlines, pc, opened, df>>
text_vars == <<pdf_text, vorbemerkung, schlussbestimmung>>
meta_vars == <<pdf_pages, headers_first_meta, header_meta, text_vars>>
call_vars == <<call, ret>>
vars == <<extractor_vars, run_vars, meta_vars, call_vars>>

----------------------------------------------------------------------------
(* Bounds of the model *)

\* lines read from the whole document by one extract()
MaxLines == 4
\* pages of the document read by extract()
MaxPages == 2
\* pages of the document read by the metadata extractor
MaxMetaPages == 2
\* length of the strings given to _normalize_number
MaxNumLen == 4
\* rows of the tables given to fill_hint_columns
MaxRows == 4
\* pieces a description given to _clean_detailed_description is made of
MaxPieces == 4
\* pieces a line given to the loop body of _process_lines is made of
MaxTokens == 4

----------------------------------------------------------------------------
(* Characters and strings *)

None == <<"None">>
EmptyStr == <<>>

Digits == {"0", "1", "2", "3", "4", "5", "6", "7", "8", "9"}
Whitespace == {" ", "\t"}

UpperSeq ==
    <<"A", "B", "C", "D", "E", "F", "G", "H", "I", "J", "K", "L", "M", "N", "O", "P", "Q", "R", "S", "T", "U", "V", "W", "X", "Y", "Z", "Ä", "Ö", "Ü">>
LowerSeq ==
    <<"a", "b", "c", "d", "e", "f", "g", "h", "i", "j", "k", "l", "m", "n", "o", "p", "q", "r", "s", "t", "u", "v", "w", "x", "y", "z", "ä", "ö", "ü">>

Range(f) == {f[k] : k \in DOMAIN f}

Maximum(S) == CHOOSE x \in S : \A y \in S : y <= x
Minimum(S) == CHOOSE x \in S : \A y \in S : x <= y

\* the least element of a set of indices, 0 for the empty set
FirstOrZero(S) == IF S = {} THEN 0 ELSE Minimum(S)

\* the case folding of re.IGNORECASE on the letters of the model
LowerOf == [c \in Range(UpperSeq) |-> LowerSeq[CHOOSE k \in DOMAIN UpperSeq : UpperSeq[k] = c]]
ToLowerChar(c) == IF c \in DOMAIN LowerOf THEN LowerOf[c] ELSE c

\* [A-Za-zÄÖÜäöüß\s\-]
SectionChars == Range(UpperSeq) \cup Range(LowerSeq) \cup {"ß", "-"} \cup Whitespace

\* the number of consecutive characters of s from index i on that are in C
RECURSIVE RunLen(_, _, _)
RunLen(s, i, C) ==
    IF i >= 1 /\ i <= Len(s) /\ s[i] \in C THEN 1 + RunLen(s, i + 1, C) ELSE 0

\* the same with the characters folded to lower case
RECURSIVE RunLenLower(_, _, _)
RunLenLower(s, i, C) ==
    IF i >= 1 /\ i <= Len(s) /\ ToLowerChar(s[i]) \in C
    THEN 1 + RunLenLower(s, i + 1, C) ELSE 0

\* \S+ : the number of consecutive non-whitespace characters from index i on
RECURSIVE NonWsRun(_, _)
NonWsRun(s, i) ==
    IF i >= 1 /\ i <= Len(s) /\ s[i] \notin Whitespace THEN 1 + NonWsRun(s, i + 1) ELSE 0

\* the number of whitespace characters at the end of s[1..n]
RECURSIVE TrailWs(_, _)
TrailWs(s, n) ==
    IF n >= 1 /\ s[n] \in Whitespace THEN 1 + TrailWs(s, n - 1) ELSE 0

\* str.strip()
strip(s) ==
    LET lead == RunLen(s, 1, Whitespace)
    IN  IF lead = Len(s) THEN EmptyStr
        ELSE SubSeq(s, lead + 1, Len(s) - TrailWs(s, Len(s)))

\* p occurs in s at index i
StartsWithAt(s, i, p) ==
    /\ i >= 1
    /\ i + Len(p) - 1 <= Len(s)
    /\ \A k \in 1..Len(p) : s[i + k - 1] = p[k]

\* str.startswith
startswith(s, p) == StartsWithAt(s, 1, p)

\* the index of the first occurrence of p in s at or after i, 0 when there is none
RECURSIVE Find(_, _, _)
Find(s, i, p) ==
    IF i + Len(p) - 1 > Len(s) THEN 0
    ELSE IF StartsWithAt(s, i, p) THEN i
    ELSE Find(s, i + 1, p)

\* the index of the last occurrence of the character c in s[1..n], 0 when there is none
RECURSIVE RFindChar(_, _, _)
RFindChar(s, n, c) ==
    IF n = 0 THEN 0 ELSE IF s[n] = c THEN n ELSE RFindChar(s, n - 1, c)

\* str.replace(c, '') for a character c
RECURSIVE RemoveChar(_, _)
RemoveChar(s, c) ==
    IF s = EmptyStr THEN EmptyStr
    ELSE (IF Head(s) = c THEN EmptyStr ELSE <<Head(s)>>) \o RemoveChar(Tail(s), c)

\* re.sub(r"\s+", " ", s): every run of whitespace becomes one space
RECURSIVE CollapseWs(_, _)
CollapseWs(s, i) ==
    IF i > Len(s) THEN EmptyStr
    ELSE LET w == RunLen(s, i, Whitespace)
             n == NonWsRun(s, i)
         IN  IF w >= 1 THEN <<" ">> \o CollapseWs(s, i + w)
             ELSE SubSeq(s, i, i + n - 1) \o CollapseWs(s, i + n)

----------------------------------------------------------------------------
(* The text the documents of the model are made of *)

S_Uebertrag ==
    <<"Ü", "b", "e", "r", "t", "r", "a", "g">>
S_Summe ==
    <<"S", "u", "m", "m", "e">>
S_Mailto ==
    <<"m", "a", "i", "l", "t", "o", ":">>
S_Projekt ==
    <<"P", "r", "o", "j", "e", "k", "t", ":">>
S_Placeholder1 ==
    <<"_", "_", "_", " ", "_", "_", "_", "_", "_", "_", "_", "_", " ", "_", "_", "_", "_", "_", "_", "_", "_", "_", "_", "_", "_">>
S_Placeholder2 ==
    <<"_", "_", "_", "_", "_", "_", "_", "_">>
S_Letterhead ==
    <<"I", "n", "g", "e", "n", "i", "e", "u", "r", "b", "ü", "r", "o", " ", "W", "a", "g", "n", "e", "r", " ", "u", "n", "d", " ", "K", "o", "l", "l">>
S_Signature ==
    <<"F", "i", "r", "m", "e", "n", "s", "t", "e", "m", "p", "e", "l", ",", " ", "r", "e", "c", "h", "t", "s", "v", "e", "r", "b", "i", "n", "d", "l", "i", "c", "h", "e", " ", "U", "n", "t", "e", "r", "s", "c", "h", "r", "i", "f", "t">>
S_Seite ==
    <<"S", "e", "i", "t", "e">>

L_Erdarbeiten ==
    <<"1", "0", " ", "E", "r", "d", "a", "r", "b", "e", "i", "t", "e", "n">>
L_Maurerarbeiten ==
    <<"1", "2", " ", "M", "a", "u", "r", "e", "r", "a", "r", "b", "e", "i", "t", "e", "n">>
L_SomeHint ==
    <<"s", "o", "m", "e", " ", "h", "i", "n", "t">>
L_Aushub ==
    <<"1", ".", ".", ".", "1", " ", "A", "u", "s", "h", "u", "b">>
L_Mauerwerk ==
    <<"1", ".", ".", ".", "2", " ", "M", "a", "u", "e", "r", "w", "e", "r", "k">>
L_Qty350 ==
    <<"3", ",", "5", "0", " ", "m", "3">>
L_Qty0125 ==
    <<"0", ",", "1", "2", "5", " ", "t">>
L_Blank ==
    <<" ", " ">>
L_Uebertrag ==
    <<"ü", "b", "e", "r", "t", "r", "a", "g", ":", " ", "5", " ", "E", "P", " ", "(", "E", "U", "R", ")", " ", "G", "P", " ", "(", "E", "U", "R", ")">>
L_Summe ==
    <<"S", "u", "m", "m", "e", " ", "5">>

\* the raw lines a page's text is made of (the items of text.split('\n'))
Lines ==
    {L_Erdarbeiten, L_SomeHint, L_Aushub, L_Mauerwerk, L_Qty0125, L_Blank, L_Uebertrag}

H_Full ==
    <<"B", "a", "u", " ", "A", "G", " ", "-", "-", " ", "W", "e", "g", " ", "1", " ", "S", "e", "i", "t", "e", ":", " ", "1">>
H_Plain ==
    <<"B", "a", "u", " ", " ", "A", "G">>

\* what _extract_header_text finds on a page: a header text, the empty text
\* of a page without text, or the None of an empty table cell
HeaderTexts == {H_Full, H_Plain, EmptyStr, None}

----------------------------------------------------------------------------
(* The compiled patterns of __init__: a match is [ok, g1, g2] *)

NoMatch == [ok |-> FALSE, g1 |-> EmptyStr, g2 |-> EmptyStr]

\* re.compile(r"^(\d+\.\.\.\d+)\s+(.*)").match(s)
pos_pattern(s) ==
    LET a == RunLen(s, 1, Digits)
        b == RunLen(s, a + 4, Digits)
        w == RunLen(s, a + 4 + b, Whitespace)
    IN  IF a >= 1 /\ StartsWithAt(s, a + 1, <<".", ".", ".">>) /\ b >= 1 /\ w >= 1
        THEN [ok |-> TRUE, g1 |-> SubSeq(s, 1, a + 3 + b),
              g2 |-> SubSeq(s, a + 4 + b + w, Len(s))]
        ELSE NoMatch

\* re.compile(r"^([\d.]+(?:,\d+)?)\s+(\S+)").match(s)
qty_pattern(s) ==
    LET a == RunLen(s, 1, Digits \cup {"."})
        f == IF a + 1 <= Len(s) /\ s[a + 1] = "," THEN RunLen(s, a + 2, Digits) ELSE 0
        e == IF f >= 1 THEN a + 1 + f ELSE a
        w == RunLen(s, e + 1, Whitespace)
        u == NonWsRun(s, e + 1 + w)
    IN  IF a >= 1 /\ w >= 1 /\ u >= 1
        THEN [ok |-> TRUE, g1 |-> SubSeq(s, 1, e),
              g2 |-> SubSeq(s, e + 1 + w, e + w + u)]
        ELSE NoMatch

\* re.compile(r"^(\d+)\s+([A-Za-zÄÖÜäöüß\s\-]+)$").match(s)
section_pattern(s) ==
    LET a == RunLen(s, 1, Digits)
        w == RunLen(s, a + 1, Whitespace)
        r == RunLen(s, a + 1 + w, SectionChars)
    IN  IF a >= 1 /\ w >= 1 /\ a + w + r = Len(s) /\ (r >= 1 \/ w >= 2)
        THEN [ok |-> TRUE, g1 |-> SubSeq(s, 1, a),
              g2 |-> IF r >= 1 THEN SubSeq(s, a + w + 1, Len(s))
                     ELSE SubSeq(s, Len(s), Len(s))]
        ELSE NoMatch

----------------------------------------------------------------------------
(* Regular expressions made of single-character items, matched with        *)
(* re.IGNORECASE: an item is a set of lower-case characters taken once, a  *)
(* literal, once or more, or any number of times.  No item that repeats    *)
(* is followed by an item that takes the same characters, so the greedy    *)
(* match is the only one.                                                  *)

Lit(c) == [set |-> {ToLowerChar(c)}, min |-> 1, many |-> FALSE]
Plus(c) == [set |-> {ToLowerChar(c)}, min |-> 1, many |-> TRUE]
Star(C) == [set |-> C, min |-> 0, many |-> TRUE]

\* the index after the match of items[k..] at index i of s, 0 when there is no match
RECURSIVE MatchItems(_, _, _, _)
MatchItems(s, i, items, k) ==
    IF k > Len(items) THEN i
    ELSE LET it == items[k]
             n == IF it.many THEN RunLenLower(s, i, it.set)
                  ELSE IF i <= Len(s) /\ ToLowerChar(s[i]) \in it.set THEN 1 ELSE 0
         IN  IF n < it.min THEN 0 ELSE MatchItems(s, i + n, items, k + 1)

\* .*? then items: the index after the first match of items starting at or after i
RECURSIVE FindItems(_, _, _)
FindItems(s, i, items) ==
    IF i > Len(s) THEN 0
    ELSE LET e == MatchItems(s, i, items, 1)
         IN  IF e # 0 THEN e ELSE FindItems(s, i + 1, items)

\* re.sub(prefix + ".*?" + caption, " ", s, flags=re.IGNORECASE | re.DOTALL), from index i on
RECURSIVE SubBlock(_, _, _, _)
SubBlock(s, i, prefix, caption) ==
    IF i > Len(s) THEN EmptyStr
    ELSE LET j == MatchItems(s, i, prefix, 1)
             e == IF j = 0 THEN 0 ELSE FindItems(s, j, caption)
         IN  IF e # 0 THEN <<" ">> \o SubBlock(s, e, prefix, caption)
             ELSE <<s[i]>> \o SubBlock(s, i + 1, prefix, caption)

\* Ü+\s*b+e+r+t+r+a+g+[:]*
UebertragPattern ==
    <<Plus("Ü"), Star(Whitespace), Plus("b"), Plus("e"), Plus("r"), Plus("t"),
      Plus("r"), Plus("a"), Plus("g"), Star({":"})>>

\* EP\s*\(EUR\)\s*GP\s*\(EUR\)
EpGpPattern ==
    <<Lit("E"), Lit("P"), Star(Whitespace), Lit("("), Lit("E"), Lit("U"), Lit("R"), Lit(")"),
      Star(Whitespace), Lit("G"), Lit("P"), Star(Whitespace), Lit("("), Lit("E"), Lit("U"),
      Lit("R"), Lit(")")>>

\* a literal text as a pattern
Literal(p) == [k \in 1..Len(p) |-> Lit(p[k])]

\* re.escape(unternehmen).replace(r"\ ", r"\s*")
company_pattern(unternehmen) ==
    [k \in 1..Len(unternehmen) |->
        IF unternehmen[k] = " " THEN Star(Whitespace) ELSE Lit(unternehmen[k])]

\* dict.get(key)
Get(d, key) == IF key \in DOMAIN d THEN d[key] ELSE None

\* truth value of an optional str: neither None nor ""
Truthy(v) == v # None /\ v # EmptyStr

\* a cleanup that leaves the blocks that end in the signature caption
_clean_detailed_description_keeps_signature(header, desc) ==
    IF ~Truthy(desc) THEN desc
    ELSE LET unternehmen == Get(header, "Unternehmen")
             s1 == SubBlock(desc, 1, UebertragPattern, EpGpPattern)
             s2 == IF Truthy(unternehmen)
                   THEN SubBlock(s1, 1, company_pattern(unternehmen), EpGpPattern)
                   ELSE s1
         IN  strip(CollapseWs(s2, 1))

\* PDFPositionExtractor._clean_detailed_description (self.metadata_header is header)
_clean_detailed_description(header, desc) ==
    IF ~Truthy(desc) THEN desc
    ELSE LET unternehmen == Get(header, "Unternehmen")
             \* "if unternehmen:" the block from the company name to caption goes
             company_block(s, caption) ==
                 IF Truthy(unternehmen)
                 THEN SubBlock(s, 1, company_pattern(unternehmen), caption)
                 ELSE s
             s1 == SubBlock(desc, 1, UebertragPattern, EpGpPattern)
             s2 == company_block(s1, EpGpPattern)
             s3 == company_block(s2, Literal(S_Signature))
         IN  strip(CollapseWs(s3, 1))

----------------------------------------------------------------------------
(* LVMetadataExtractor: the header of a page *)

\* LVMetadataExtractor._normalize_text: " ".join(text.split()).strip()
_normalize_text(text) == strip(CollapseWs(text, 1))

\* text.split(sep)[0]
BeforeFirst(text, sep) ==
    LET k == Find(text, 1, sep)
    IN  IF k = 0 THEN text ELSE SubSeq(text, 1, k - 1)

\* text.split(sep): the pieces of text between the occurrences of sep
RECURSIVE SplitOn(_, _)
SplitOn(text, sep) ==
    LET k == Find(text, 1, sep)
    IN  IF k = 0 THEN <<text>>
        ELSE <<SubSeq(text, 1, k - 1)>> \o SplitOn(SubSeq(text, k + Len(sep), Len(text)), sep)

\* the items of a sequence that satisfy Truthy, in order
RECURSIVE NonEmpty(_)
NonEmpty(ps) ==
    IF ps = <<>> THEN <<>>
    ELSE (IF Head(ps) # EmptyStr THEN <<Head(ps)>> ELSE <<>>) \o NonEmpty(Tail(ps))

\* LVMetadataExtractor._split_header_parts:
\* [p.strip() for p in re.split(r"\s*--\s*", text) if p.strip()]
_split_header_parts(text) ==
    LET ps == SplitOn(text, <<"-", "-">>)
    IN  NonEmpty([k \in 1..Len(ps) |-> strip(ps[k])])

EmptyDict == <<>>

\* LVMetadataExtractor._extract_basic_info, the keys Unternehmen and Straße
_extract_basic_info(parts) ==
    [key \in (IF Len(parts) >= 1 THEN {"Unternehmen"} ELSE {})
              \cup (IF Len(parts) >= 2 THEN {"Straße"} ELSE {}) |->
        IF key = "Unternehmen" THEN parts[1] ELSE parts[2]]

\* LVMetadataExtractor.extract_header_metadata on a page whose header text
\* (_extract_header_text) is head_line; head_line.split raises on None and the
\* exception handler returns the mapping as it is then: empty
extract_header_metadata(head_line) ==
    IF head_line = None THEN EmptyDict
    ELSE LET total == _normalize_text(strip(BeforeFirst(head_line, S_Seite)))
             header_text == _normalize_text(head_line)
             basic == _extract_basic_info(_split_header_parts(header_text))
         IN  [key \in {"total_header_data"} \cup DOMAIN basic |->
                 IF key = "total_header_data" THEN total ELSE basic[key]]

----------------------------------------------------------------------------
(* PDFPositionExtractor: the line handlers.  self is the record of the     *)
(* object's attributes; a handler gives the object after the call and the  *)
(* value returned.  self.current is <<>> (None) or <<record>>.             *)

NoCurrent == <<>>

\* PDFPositionExtractor._finalize_current_position
_finalize_current_position(self) ==
    IF self.current = NoCurrent THEN self
    ELSE LET c == self.current[1]
             cleaned == _clean_detailed_description(self.metadata_header, c.DetailedDescription)
             desc == IF Truthy(c.DetailedDescription)
                     THEN (IF Truthy(cleaned) THEN cleaned ELSE None)
                     ELSE c.DetailedDescription
         IN  [self EXCEPT !.rows = Append(@, [c EXCEPT !.DetailedDescription = desc]),
                          !.current = NoCurrent]

\* a _process_section_header that leaves the pending hint as it is
_process_section_header_keeps_hint(self, ln) ==
    LET m == section_pattern(ln)
    IN  IF ~m.ok THEN [self |-> self, ret |-> FALSE]
        ELSE [self |-> [_finalize_current_position(self) EXCEPT !.section = strip(m.g2)],
              ret |-> TRUE]

\* a _process_section_header that forgets to finalize the open record
_process_section_header_no_finalize(self, ln) ==
    LET m == section_pattern(ln)
    IN  IF ~m.ok THEN [self |-> self, ret |-> FALSE]
        ELSE [self |-> [self EXCEPT !.section = strip(m.g2), !.section_hint = EmptyStr],
              ret |-> TRUE]

\* PDFPositionExtractor._process_section_header
_process_section_header(self, ln) ==
    LET m == section_pattern(ln)
    IN  IF ~m.ok THEN [self |-> self, ret |-> FALSE]
        ELSE [self |-> [_finalize_current_position(self) EXCEPT
                            !.section = strip(m.g2), !.section_hint = EmptyStr],
              ret |-> TRUE]

\* a _process_position that leaves the pending hint as it is
_process_position_keeps_hint(self, ln, page) ==
    LET m == pos_pattern(ln)
        new_position(fin) ==
            [fin EXCEPT
                !.current = <<[Section |-> fin.section,
                               SectionHint |-> IF Truthy(fin.section_hint)
                                               THEN strip(fin.section_hint) ELSE None,
                               Position |-> m.g1,
                               MainDescription |-> strip(m.g2),
                               DetailedDescription |-> EmptyStr,
                               Quantity |-> None,
                               Unit |-> None,
                               Page |-> page]>>]
    IN  IF ~m.ok THEN [self |-> self, ret |-> FALSE]
        ELSE [self |-> new_position(_finalize_current_position(self)), ret |-> TRUE]

\* PDFPositionExtractor._process_position
_process_position(self, ln, page) ==
    LET m == pos_pattern(ln)
        \* the new record, on the object fin that the finalization has left
        new_position(fin) ==
            [fin EXCEPT
                !.current = <<[Section |-> fin.section,
                               SectionHint |-> IF Truthy(fin.section_hint)
                                               THEN strip(fin.section_hint) ELSE None,
                               Position |-> m.g1,
                               MainDescription |-> strip(m.g2),
                               DetailedDescription |-> EmptyStr,
                               Quantity |-> None,
                               Unit |-> None,
                               Page |-> page]>>,
                !.section_hint = EmptyStr]
    IN  IF ~m.ok THEN [self |-> self, ret |-> FALSE]
        ELSE [self |-> new_position(_finalize_current_position(self)), ret |-> TRUE]

\* a _process_quantity_unit that stores the quantity without its comma fraction
_process_quantity_unit_without_fraction(self, ln) ==
    LET m == qty_pattern(ln)
    IN  IF ~m.ok \/ self.current = NoCurrent THEN [self |-> self, ret |-> FALSE]
        ELSE [self |-> [self EXCEPT
                            !.current[1].Quantity =
                                SubSeq(m.g1, 1, RunLen(m.g1, 1, Digits \cup {"."})),
                            !.current[1].Unit = m.g2],
              ret |-> TRUE]

\* PDFPositionExtractor._process_quantity_unit
_process_quantity_unit(self, ln) ==
    LET m == qty_pattern(ln)
    IN  IF ~m.ok \/ self.current = NoCurrent THEN [self |-> self, ret |-> FALSE]
        ELSE [self |-> [self EXCEPT !.current[1].Quantity = m.g1, !.current[1].Unit = m.g2],
              ret |-> TRUE]

\* a _process_section_hint that does not look at the open record
_process_section_hint_while_open(self, ln) ==
    IF Truthy(self.section)
    THEN [self |-> [self EXCEPT !.section_hint =
                        IF Truthy(@) THEN strip(@ \o <<" ">> \o ln) ELSE ln],
          ret |-> TRUE]
    ELSE [self |-> self, ret |-> FALSE]

\* PDFPositionExtractor._process_section_hint
_process_section_hint(self, ln) ==
    IF Truthy(self.section) /\ self.current = NoCurrent
    THEN [self |-> [self EXCEPT !.section_hint =
                        IF Truthy(@) THEN strip(@ \o <<" ">> \o ln) ELSE ln],
          ret |-> TRUE]
    ELSE [self |-> self, ret |-> FALSE]

skip_tokens == {S_Uebertrag, S_Summe, S_Mailto, S_Projekt}

\* PDFPositionExtractor._process_detailed_description
_process_detailed_description(self, ln) ==
    IF self.current = NoCurrent THEN self
    ELSE IF \E tok \in skip_tokens : startswith(ln, tok) THEN self
    ELSE [self EXCEPT !.current[1].DetailedDescription =
              IF Truthy(@) THEN @ \o <<" ">> \o ln ELSE ln]

\* a loop body that tries the quantity/unit handler before the position handler
process_line_quantity_first(self, raw, page) ==
    LET ln == strip(raw)
        after_section_hint(t) ==
            IF t.ret THEN t.self ELSE _process_detailed_description(t.self, ln)
        after_position(p) ==
            IF p.ret THEN p.self ELSE after_section_hint(_process_section_hint(p.self, ln))
        after_quantity_unit(q) ==
            IF q.ret THEN q.self ELSE after_position(_process_position(q.self, ln, page))
        after_section_header(h) ==
            IF h.ret THEN h.self ELSE after_quantity_unit(_process_quantity_unit(h.self, ln))
    IN  IF ln = EmptyStr THEN self
        ELSE after_section_header(_process_section_header(self, ln))

\* PDFPositionExtractor._process_lines: the body of the loop, for one raw line
process_line(self, raw, page) ==
    LET ln == strip(raw)
        \* "if self._process_...(line): continue", one handler after the other:
        \* each takes the outcome of the handler before it
        after_section_hint(t) ==
            IF t.ret THEN t.self ELSE _process_detailed_description(t.self, ln)
        after_quantity_unit(q) ==
            IF q.ret THEN q.self ELSE after_section_hint(_process_section_hint(q.self, ln))
        after_position(p) ==
            IF p.ret THEN p.self ELSE after_quantity_unit(_process_quantity_unit(p.self, ln))
        after_section_header(h) ==
            IF h.ret THEN h.self ELSE after_position(_process_position(h.self, ln, page))
    IN  IF ln = EmptyStr THEN self
        ELSE after_section_header(_process_section_header(self, ln))

\* an end of _process_lines that finalizes at the end of every page
end_of_lines_every_page(self, is_last_page) == _finalize_current_position(self)

\* PDFPositionExtractor._process_lines: after the loop
end_of_lines(self, is_last_page) ==
    IF is_last_page THEN _finalize_current_position(self) ELSE self

\* PDFPositionExtractor._process_lines on all the lines of a page
RECURSIVE process_all(_, _, _)
process_all(self, lines, page) ==
    IF lines = <<>> THEN self
    ELSE process_all(process_line(self, Head(lines), page), Tail(lines), page)

_process_lines(self, lines, page, is_last_page) ==
    end_of_lines(process_all(self, lines, page), is_last_page)

\* PDFPositionExtractor.__init__ : the object made for a document whose first
\* page has the header text head_line
NewExtractor(head_line) ==
    [rows |-> <<>>, section |-> None, current |-> NoCurrent, section_hint |-> EmptyStr,
     metadata_header |-> extract_header_metadata(head_line)]

----------------------------------------------------------------------------
(* Numbers.  A float is <<"float", i, f>>: its integer part i and the      *)
(* digits f of its fraction without trailing zeros, which is what float()  *)
(* and str() keep of a short decimal.                                      *)

DigitSeq == <<"0", "1", "2", "3", "4", "5", "6", "7", "8", "9">>
DigitValue(c) == (CHOOSE k \in DOMAIN DigitSeq : DigitSeq[k] = c) - 1

\* int(s) for a string of digits
RECURSIVE ToInt(_)
ToInt(s) ==
    IF s = EmptyStr THEN 0
    ELSE 10 * ToInt(SubSeq(s, 1, Len(s) - 1)) + DigitValue(s[Len(s)])

\* str(n) for a natural number
RECURSIVE IntStr(_)
IntStr(n) ==
    IF n < 10 THEN <<DigitSeq[n + 1]>> ELSE IntStr(n \div 10) \o <<DigitSeq[(n % 10) + 1]>>

\* s without the zeros at its end
RECURSIVE DropTrailingZeros(_)
DropTrailingZeros(s) ==
    IF s # EmptyStr /\ s[Len(s)] = "0" THEN DropTrailingZeros(SubSeq(s, 1, Len(s) - 1)) ELSE s

IsFloat(v) == Len(v) = 3 /\ v[1] = "float"

\* pd.to_numeric(value, errors="coerce") for one value: a string of digits with
\* at most one dot is the number it writes, any other string is NaN
to_numeric(v) ==
    IF v = None THEN None
    ELSE IF IsFloat(v) THEN v
    ELSE LET dot == RFindChar(v, Len(v), ".")
             ipart == IF dot = 0 THEN v ELSE SubSeq(v, 1, dot - 1)
             fpart == IF dot = 0 THEN EmptyStr ELSE SubSeq(v, dot + 1, Len(v))
         IN  IF /\ Len(ipart) + Len(fpart) >= 1
                /\ \A k \in DOMAIN ipart : ipart[k] \in Digits
                /\ \A k \in DOMAIN fpart : fpart[k] \in Digits
             THEN <<"float", ToInt(ipart), DropTrailingZeros(fpart)>>
             ELSE None

\* str(value) for a float
FloatStr(v) == IntStr(v[2]) \o <<".">> \o (IF v[3] = EmptyStr THEN <<"0">> ELSE v[3])

\* a _normalize_number that takes up to three digits after the last dot as a fraction
_normalize_number_wide_fraction(v) ==
    IF v = None THEN v
    ELSE LET value == strip(IF IsFloat(v) THEN FloatStr(v) ELSE v)
             comma == RFindChar(value, Len(value), ",")
             dot == RFindChar(value, Len(value), ".")
         IN  IF comma # 0
             THEN RemoveChar(RemoveChar(SubSeq(value, 1, comma - 1), "."), " ")
                      \o <<".">> \o SubSeq(value, comma + 1, Len(value))
             ELSE IF dot # 0
             THEN IF Len(value) - dot <= 3
                  THEN RemoveChar(RemoveChar(SubSeq(value, 1, dot - 1), "."), " ")
                           \o <<".">> \o SubSeq(value, dot + 1, Len(value))
                  ELSE RemoveChar(RemoveChar(value, "."), " ")
             ELSE value

\* PDFPositionExtractor._normalize_number
_normalize_number(v) ==
    IF v = None THEN v
    ELSE LET value == strip(IF IsFloat(v) THEN FloatStr(v) ELSE v)
             comma == RFindChar(value, Len(value), ",")
             dot == RFindChar(value, Len(value), ".")
         IN  IF comma # 0
             THEN RemoveChar(RemoveChar(SubSeq(value, 1, comma - 1), "."), " ")
                      \o <<".">> \o SubSeq(value, comma + 1, Len(value))
             ELSE IF dot # 0
             THEN IF Len(value) - dot <= 2
                  THEN RemoveChar(RemoveChar(SubSeq(value, 1, dot - 1), "."), " ")
                           \o <<".">> \o SubSeq(value, dot + 1, Len(value))
                  ELSE RemoveChar(RemoveChar(value, "."), " ")
             ELSE value

----------------------------------------------------------------------------
(* The DataFrame: a sequence of rows, each a record of its columns *)

\* pd.DataFrame(self.rows)
DataFrame(rs) == rs

\* value.split('.')[0] and value.split('.')[-1]
FirstSegment(v) == BeforeFirst(v, <<".">>)
LastSegment(v) == SubSeq(v, RFindChar(v, Len(v), ".") + 1, Len(v))

\* PDFPositionExtractor.generate_position_levels
generate_position_levels(d) ==
    [k \in DOMAIN d |->
        ("position_level_1" :> ToInt(FirstSegment(d[k].Position))
         @@ "position_level_2" :> ToInt(LastSegment(d[k].Position)))
        @@ d[k]]

\* the columns that hold text
TextColumns ==
    {"Section", "SectionHint", "Position", "MainDescription", "DetailedDescription",
     "Quantity", "Unit"}

\* PDFPositionExtractor.cleaning_steps
cleaning_steps(d) ==
    LET replaced ==
            [k \in DOMAIN d |->
                [col \in DOMAIN d[k] |->
                    IF col \in TextColumns /\ d[k][col] \in {S_Placeholder1, S_Placeholder2}
                    THEN None ELSE d[k][col]]]
    IN  [k \in DOMAIN d |->
            IF replaced[k].SectionHint # None /\ startswith(replaced[k].SectionHint, S_Letterhead)
            THEN [replaced[k] EXCEPT !.SectionHint = None]
            ELSE replaced[k]]

\* PDFPositionExtractor.parse_datatypes
parse_datatypes(d) ==
    [k \in DOMAIN d |-> [d[k] EXCEPT !.Quantity = to_numeric(_normalize_number(@))]]

\* Series.ffill(): a missing value takes the last value before it
RECURSIVE FfillFrom(_, _)
FfillFrom(xs, carry) ==
    IF xs = <<>> THEN <<>>
    ELSE LET v == IF Head(xs) = None THEN carry ELSE Head(xs)
         IN  <<v>> \o FfillFrom(Tail(xs), v)

ffill(xs) == FfillFrom(xs, None)

Reverse(xs) == [k \in 1..Len(xs) |-> xs[Len(xs) + 1 - k]]

\* Series.bfill(): a missing value takes the next value after it
bfill(xs) == Reverse(ffill(Reverse(xs)))

\* the indices of the rows of d whose position_level_1 is g, in order
RECURSIVE GroupIndex(_, _, _)
GroupIndex(d, g, k) ==
    IF k > Len(d) THEN <<>>
    ELSE (IF d[k].position_level_1 = g THEN <<k>> ELSE <<>>) \o GroupIndex(d, g, k + 1)

\* a fill_hint_columns that only fills forward
fill_hint_columns_forward_only(d) ==
    [k \in DOMAIN d |->
        LET idx == GroupIndex(d, d[k].position_level_1, 1)
            filled == ffill([n \in DOMAIN idx |-> d[idx[n]].SectionHint])
            n == CHOOSE n \in DOMAIN idx : idx[n] = k
        IN  [d[k] EXCEPT !.SectionHint = filled[n]]]

\* PDFPositionExtractor.fill_hint_columns
fill_hint_columns(d) ==
    [k \in DOMAIN d |->
        LET idx == GroupIndex(d, d[k].position_level_1, 1)
            filled == bfill(ffill([n \in DOMAIN idx |-> d[idx[n]].SectionHint]))
            n == CHOOSE n \in DOMAIN idx : idx[n] = k
        IN  [d[k] EXCEPT !.SectionHint = filled[n]]]

\* PDFPositionExtractor.main after extract(): the four steps on the DataFrame
post_process(d) ==
    fill_hint_columns(parse_datatypes(cleaning_steps(generate_position_levels(d))))

----------------------------------------------------------------------------
(* PDFPositionExtractor.main on one document.  The document has num_pages  *)
(* pages; the text of a page is read as the loops reach it: a page has no  *)
(* text, or its text is one raw line after the other.                      *)
(*   pc = "page"      extract() is at the head of its loop, at page_number *)
(*   pc = "lines"     _process_lines is in its loop over the page's lines  *)
(*   pc = "extracted" extract() has returned the DataFrame df              *)
(*   pc = "done"      main() has returned df                               *)
(*   pc = "failed"    main() raised                                        *)

Self ==
    [rows |-> rows, section |-> section, current |-> current,
     section_hint |-> section_hint, metadata_header |-> metadata_header]

SetSelf(self) ==
    /\ rows' = self.rows
    /\ section' = self.section
    /\ current' = self.current
    /\ section_hint' = self.section_hint
    /\ metadata_header' = self.metadata_header

\* the header texts of the first page of the documents read by extract()
ExtractorHeaders == {H_Full, None}

NoCall == [op |-> "none"]

IdleMeta ==
    /\ pdf_pages = <<>>
    /\ headers_first_meta = EmptyDict
    /\ header_meta = <<>>
    /\ pdf_text = <<>>
    /\ vorbemerkung = EmptyStr
    /\ schlussbestimmung = EmptyStr

IsSelf(self) ==
    /\ rows = self.rows
    /\ section = self.section
    /\ current = self.current
    /\ section_hint = self.section_hint
    /\ metadata_header = self.metadata_header

IdleExtractor ==
    /\ IsSelf(NewExtractor(None))
    /\ num_pages = 0 /\ page_number = 0 /\ line = None /\ nlines = 0
    /\ pc = "idle" /\ opened = 0 /\ df = <<>>

\* PDFPositionExtractor(pdf_path) for a document of 1..MaxPages pages: __init__
\* reads the header of page 1, so the document has one
Init ==
    /\ \E h \in ExtractorHeaders : IsSelf(NewExtractor(h))
    /\ num_pages \in 1..MaxPages
    /\ page_number = 1
    /\ line = None
    /\ nlines = 0
    /\ pc = "page"
    /\ opened = 0
    /\ df = <<>>
    /\ IdleMeta
    /\ call = NoCall /\ ret = None

\* extract(): the end of the loop body for page_number
NextPage ==
    IF page_number = num_pages
    THEN pc' = "extracted" /\ page_number' = page_number /\ df' = DataFrame(rows')
    ELSE pc' = "page" /\ page_number' = page_number + 1 /\ df' = df

\* extract(): the page has no text, "continue"
NoText ==
    /\ pc = "page"
    /\ SetSelf(Self)
    /\ NextPage
    /\ UNCHANGED <<num_pages, line, nlines, opened, meta_vars, call_vars>>

\* a position record is created by the line raw
Opens(raw) ==
    /\ strip(raw) # EmptyStr
    /\ ~section_pattern(strip(raw)).ok
    /\ pos_pattern(strip(raw)).ok

\* _process_lines(): one turn of the loop, on the next raw line of the page's text
ReadLine ==
    /\ pc \in {"page", "lines"}
    /\ nlines < MaxLines
    /\ \E raw \in Lines :
          /\ line' = raw
          /\ SetSelf(process_line(Self, raw, page_number))
          /\ opened' = IF Opens(raw) THEN opened + 1 ELSE opened
    /\ nlines' = nlines + 1
    /\ pc' = "lines"
    /\ UNCHANGED <<num_pages, page_number, df, meta_vars, call_vars>>

\* _process_lines(): the lines of the page are exhausted; the call returns and
\* its loop variable is gone
EndOfPage ==
    /\ pc = "lines"
    /\ SetSelf(end_of_lines(Self, page_number = num_pages))
    /\ NextPage
    /\ line' = None
    /\ UNCHANGED <<num_pages, nlines, opened, meta_vars, call_vars>>

\* main(): the steps after extract(); a DataFrame made of no rows has no
\* column 'Position' and generate_position_levels raises KeyError
PostProcess ==
    /\ pc = "extracted"
    /\ IF df = <<>>
       THEN pc' = "failed" /\ df' = df
       ELSE pc' = "done" /\ df' = post_process(df)
    /\ UNCHANGED <<extractor_vars, num_pages, page_number, line, nlines, opened,
                   meta_vars, call_vars>>

Next == NoText \/ ReadLine \/ EndOfPage \/ PostProcess

Spec == Init /\ [][Next]_vars

----------------------------------------------------------------------------
(* The pure functions, each called once on an input drawn from a bounded   *)
(* set: call holds the input, then the call made; ret holds the result.    *)

\* the sequences over S of length at most n
BoundedSeq(S, n) == UNION {[1..k -> S] : k \in 0..n}

Input(v) == [op |-> "input", arg |-> v]

N_3350_50 ==
    <<"3", ".", "3", "5", "0", ",", "5", "0">>
N_3350000 ==
    <<"3", ".", "3", "5", "0", ".", "0", "0", "0">>
N_1234_50 ==
    <<"1", "2", "3", "4", ".", "5", "0">>
N_1_234_75 ==
    <<"1", " ", "2", "3", "4", ",", "7", "5">>
N_42 ==
    <<"4", "2">>

NumChars == {"1", "5", ".", ",", " "}

\* the values given to _normalize_number: a missing value or a string
NumberInputs ==
    BoundedSeq(NumChars, MaxNumLen)
        \cup {None, N_3350_50, N_3350000, N_1234_50, N_1_234_75, N_42}

InitNorm ==
    /\ IdleExtractor
    /\ IdleMeta
    /\ \E v \in NumberInputs : call = Input(v)
    /\ ret = None

Normalize ==
    /\ call.op = "input"
    /\ call' = [op |-> "_normalize_number", arg |-> call.arg]
    /\ ret' = _normalize_number(call.arg)
    /\ UNCHANGED <<extractor_vars, run_vars, meta_vars>>

NextNorm == Normalize

SpecNorm == InitNorm /\ [][NextNorm]_vars

H_Other ==
    <<"o", "t", "h", "e", "r">>

\* the rows of the tables given to fill_hint_columns: the two columns it reads
HintRows == [position_level_1 : {1, 3}, SectionHint : {None, L_SomeHint, H_Other}]

InitFill ==
    /\ IdleExtractor
    /\ IdleMeta
    /\ \E d \in BoundedSeq(HintRows, MaxRows) : call = Input(d)
    /\ ret = None

FillHints ==
    /\ call.op = "input"
    /\ call' = [op |-> "fill_hint_columns", arg |-> call.arg]
    /\ ret' = fill_hint_columns(call.arg)
    /\ UNCHANGED <<extractor_vars, run_vars, meta_vars>>

NextFill == FillHints

SpecFill == InitFill /\ [][NextFill]_vars

S_EpGp ==
    <<"E", "P", " ", "(", "E", "U", "R", ")", " ", "G", "P", " ", "(", "E", "U", "R", ")">>

\* the pieces of the descriptions of the model: text, whitespace, the marker
\* with another case and repeated letters, the caption of the price columns, the
\* company name of the header H_Full with another case and spacing, the
\* signature caption
DescriptionPieces ==
    {<<"x">>, <<" ">>, <<"ü", "B", "e", "r", "t", "r", "a", "g", "g", ":">>, S_EpGp,
     <<"b", "a", "u", " ", " ", "A", "G">>, S_Signature}

RECURSIVE Concat(_)
Concat(ps) == IF ps = <<>> THEN EmptyStr ELSE Head(ps) \o Concat(Tail(ps))

\* the accumulated descriptions given to _clean_detailed_description
DescriptionInputs == {Concat(ps) : ps \in BoundedSeq(DescriptionPieces, MaxPieces)}

InitClean ==
    /\ \E h \in ExtractorHeaders : IsSelf(NewExtractor(h))
    /\ num_pages = 0 /\ page_number = 0 /\ line = None /\ nlines = 0
    /\ pc = "idle" /\ opened = 0 /\ df = <<>>
    /\ IdleMeta
    /\ \E d \in DescriptionInputs : call = Input(d)
    /\ ret = None

Clean ==
    /\ call.op = "input"
    /\ call' = [op |-> "_clean_detailed_description", arg |-> call.arg]
    /\ ret' = _clean_detailed_description(metadata_header, call.arg)
    /\ UNCHANGED <<extractor_vars, run_vars, meta_vars>>

NextClean == Clean

SpecClean == InitClean /\ [][NextClean]_vars

\* the raw lines given to one turn of the loop of _process_lines: the lines of
\* the documents, the two lines that the section and position patterns are
\* told apart by, and the lines made of a digit, an ellipsis with a digit,
\* whitespace, a letter, a dot and a comma
ClassifierLines ==
    Lines \cup {L_Maurerarbeiten, L_Qty350}
        \cup {Concat(ps) : ps \in BoundedSeq({<<"1">>, <<".", ".", ".", "2">>, <<" ">>,
                                               <<"m">>, <<".">>, <<",">>}, MaxTokens)}

\* the object is as the lines before have left it: new, under a section, with
\* a pending hint, with a record open before any section, or with a record
\* open under a section
InitClassify ==
    /\ \E before \in {<<>>, <<L_Erdarbeiten>>, <<L_Erdarbeiten, L_SomeHint>>, <<L_Aushub>>,
                       <<L_Erdarbeiten, L_SomeHint, L_Aushub, L_SomeHint>>} :
          IsSelf(process_all(NewExtractor(None), before, 1))
    /\ num_pages = 1 /\ page_number = 1 /\ line = None /\ nlines = 0
    /\ pc = "lines" /\ opened = 0 /\ df = <<>>
    /\ IdleMeta
    /\ \E raw \in ClassifierLines : call = Input(raw)
    /\ ret = None

\* one turn of the loop of _process_lines, on the raw line call.arg
Classify ==
    /\ call.op = "input"
    /\ call' = [op |-> "_process_lines", arg |-> call.arg]
    /\ \E after \in {process_line(Self, call.arg, page_number)} : SetSelf(after)
    /\ UNCHANGED <<run_vars, meta_vars, ret>>

NextClassify == Classify

SpecClassify == InitClassify /\ [][NextClassify]_vars

----------------------------------------------------------------------------
(* LVMetadataExtractor on a document whose pages have the header texts     *)
(* pdf_pages.  A call returns [kind |-> "return", value] or raises         *)
(* [kind |-> "IndexError", ...].                                           *)

\* a range check that leaves the last page out
PageInRange_exclusive(p, n) == 1 <= p /\ p < n

\* the condition of extract_header_from_page: 1 <= page_number <= len(pdf.pages)
PageInRange(p, n) == 1 <= p /\ p <= n

\* LVMetadataExtractor.extract_header_from_page
extract_header_from_page(pages, p) ==
    IF PageInRange(p, Len(pages))
    THEN [kind |-> "return", value |-> extract_header_metadata(pages[p])]
    ELSE [kind |-> "IndexError", page_number |-> p, first |-> 1, last |-> Len(pages)]

\* LVMetadataExtractor.extract_all_headers: the headers that are not empty,
\* each with its page number
RECURSIVE AllHeaders(_, _)
AllHeaders(pages, k) ==
    IF k > Len(pages) THEN <<>>
    ELSE LET data == extract_header_metadata(pages[k])
         IN  (IF data # EmptyDict THEN <<("Page" :> k) @@ data>> ELSE <<>>)
                 \o AllHeaders(pages, k + 1)

----------------------------------------------------------------------------
(* LVMetadataExtractor: the Vorbemerkung and the Schlussbestimmung, cut    *)
(* out of the text of all pages                                            *)

S_VorStart ==
    <<"V", "o", "r", "b", "e", "m", "e", "r", "k", "u", "n", "g", "e", "n", " ", ":">>
S_VorEnd ==
    <<"A", "U", "S", "S", "C", "H", "R", "E", "I", "B", "U", "N", "G">>
S_SchlussStart ==
    <<"S", "c", "h", "l", "u", "s", "s", "b", "e", "m", "e", "r", "k", "u", "n", "g", "e", "n">>
S_SchlussEnd ==
    <<"O", "r", "t", ",", " ", "D", "a", "t", "u", "m">>
S_SeiteColon ==
    <<"S", "e", "i", "t", "e", ":">>
S_Position ==
    <<"P", "o", "s", "i", "t", "i", "o", "n">>
S_MengeEinheit ==
    <<"M", "e", "n", "g", "e", "/", "E", "i", "n", "h", "e", "i", "t">>

\* what page.extract_text() gives for the pages of the model
PT_Vor ==
    <<"V", "o", "r", "b", "e", "m", "e", "r", "k", "u", "n", "g", "e", "n", " ", ":", " ", "B", "a", "u", " ", "A", "G", " ", "-", "-", " ", "W", "e", "g", " ", "1", " ", "S", "e", "i", "t", "e", ":", " ", "2", " ", "n", "e", "t", "t", "o", " ", " ", "A", "U", "S", "S", "C", "H", "R", "E", "I", "B", "U", "N", "G">>
PT_Schluss ==
    <<"S", "c", "h", "l", "u", "s", "s", "b", "e", "m", "e", "r", "k", "u", "n", "g", "e", "n", " ", "-", " ", "b", "a", "r", " ", "O", "r", "t", ",", " ", "D", "a", "t", "u", "m">>
PT_Upper ==
    <<"V", "O", "R", "B", "E", "M", "E", "R", "K", "U", "N", "G", "E", "N", " ", ":", "-", " ", "P", "o", "s", "i", "t", "i", "o", "n", " ", "M", "e", "n", "g", "e", "/", "E", "i", "n", "h", "e", "i", "t", " ", "E", "P", "(", "E", "U", "R", ")", " ", "G", "P", " ", "(", "E", "U", "R", ")", " ", "a", " ", "A", "U", "S", "S", "C", "H", "R", "E", "I", "B", "U", "N", "G", "E", "N", " ", "b", " ", "a", "u", "s", "s", "c", "h", "r", "e", "i", "b", "u", "n", "g", ".">>
PT_Plain ==
    <<"1", ".", ".", ".", "1", " ", "A", "u", "s", "h", "u", "b">>

\* the texts of the pages of a document of n pages: no page has one of the
\* keywords, or the first page has the Vorbemerkung and the last page, if it is
\* another one, the Schlussbestimmung; None is a page without text
DocumentTexts(n) ==
    {[k \in 1..n |-> IF k % 2 = 1 THEN PT_Plain ELSE None]}
        \cup {[k \in 1..n |-> IF k = 1 THEN first ELSE IF k = n THEN PT_Schluss ELSE None] :
                 first \in {PT_Vor, PT_Upper}}

\* \w with re.IGNORECASE on a str pattern
WordChars == Range(UpperSeq) \cup Range(LowerSeq) \cup Digits \cup {"ß", "_"}

\* the character U+2013, which the pattern of extract_section_between_text names
EnDash == "en dash"

\* \s+ , \d+ , [:\-–]? and [A-Z] under re.IGNORECASE, as items
WsPlus == [set |-> Whitespace, min |-> 1, many |-> TRUE]
DigitPlus == [set |-> Digits, min |-> 1, many |-> TRUE]
OptSeparator == [set |-> {":", "-", EnDash}, min |-> 0, many |-> FALSE]
AnyLetter == [set |-> Range(LowerSeq) \ {"ä", "ö", "ü"}, min |-> 1, many |-> FALSE]

\* re.sub(items, "", s, flags=re.IGNORECASE) from index i on, for items that
\* match no empty string
RECURSIVE SubItems(_, _, _)
SubItems(s, i, items) ==
    LET \* the text from i on, given the index of the first match, 0 for none
        without(first) ==
            IF first = 0 THEN SubSeq(s, i, Len(s))
            ELSE SubSeq(s, i, first - 1) \o SubItems(s, MatchItems(s, first, items, 1), items)
    IN  without(FirstOrZero({k \in i..Len(s) : MatchItems(s, k, items, 1) > k}))

\* LVMetadataExtractor.extract_text_from_pdf:
\* " ".join(" ".join((page.extract_text() or "") for page in pdf.pages).split())
RECURSIVE JoinPages(_, _)
JoinPages(texts, k) ==
    IF k > Len(texts) THEN EmptyStr
    ELSE (IF k > 1 THEN <<" ">> ELSE EmptyStr)
             \o (IF Truthy(texts[k]) THEN texts[k] ELSE EmptyStr)
             \o JoinPages(texts, k + 1)

extract_text_from_pdf(texts) == strip(CollapseWs(JoinPages(texts, 1), 1))

\* (?=end_kw\b): the first index at or after i where end_kw stands, in any
\* case, and is not followed by a word character; 0 when there is none
FindWord(s, i, end_kw) ==
    LET end_items == Literal(end_kw)
        boundary(e) == e # 0 /\ (e > Len(s) \/ s[e] \notin WordChars)
    IN  FirstOrZero({k \in i..Len(s) : boundary(MatchItems(s, k, end_items, 1))})

\* re.compile(rf"{start_kw}\s*[:\-–]?\s*(.*?)(?={end_kw}\b)",
\* re.IGNORECASE | re.DOTALL).search(text), from index i on: the group, or
\* NoMatch
SearchSection(text, i, start_kw, end_kw) ==
    LET start_items ==
            Literal(start_kw) \o <<Star(Whitespace), OptSeparator, Star(Whitespace)>>
        \* the index where end_kw stands after a start that ends before j
        end_from(j) == IF j = 0 THEN 0 ELSE FindWord(text, j, end_kw)
        group(j) == [ok |-> TRUE, g1 |-> SubSeq(text, j, end_from(j) - 1), g2 |-> EmptyStr]
        match(first) ==
            IF first = 0 THEN NoMatch ELSE group(MatchItems(text, first, start_items, 1))
    IN  match(FirstOrZero({k \in i..Len(text) :
                              end_from(MatchItems(text, k, start_items, 1)) # 0}))

\* LVMetadataExtractor.extract_section_between_text
extract_section_between_text(text, start_kw, end_kw) ==
    LET match == SearchSection(text, 1, start_kw, end_kw)
    IN  IF match.ok THEN strip(match.g1) ELSE EmptyStr

\* Position\s+Menge/Einheit\s+EP\s*\([A-Z]{3}\)\s+GP\s*\([A-Z]{3}\)
table_header_pattern ==
    Literal(S_Position) \o <<WsPlus>> \o Literal(S_MengeEinheit) \o <<WsPlus>>
        \o <<Lit("E"), Lit("P"), Star(Whitespace), Lit("("), AnyLetter, AnyLetter, AnyLetter,
             Lit(")"), WsPlus, Lit("G"), Lit("P"), Star(Whitespace), Lit("("), AnyLetter,
             AnyLetter, AnyLetter, Lit(")")>>

\* LVMetadataExtractor.clean_section_post_header
clean_section_post_header(section_text, header_text) ==
    IF ~Truthy(section_text) THEN EmptyStr
    ELSE LET c1 == IF Truthy(header_text)
                   THEN SubItems(section_text, 1, Literal(header_text))
                   ELSE section_text
             c2 == SubItems(c1, 1, Literal(S_SeiteColon) \o <<Star(Whitespace), DigitPlus>>)
             c3 == SubItems(c2, 1, table_header_pattern)
         IN  strip(CollapseWs(c3, 1))

\* LVMetadataExtractor.extract_vorbestimmung_and_schlussbestimmung on a
\* document whose pages have the texts pdf_text: the two attributes after the
\* call and its outcome.  self.headers_first_meta['total_header_data'] raises
\* KeyError when the mapping has no such key; self.vorbemerkung has then got
\* the section as it was cut out, not cleaned
extract_vorbestimmung_and_schlussbestimmung(texts, first_meta, vor, schluss) ==
    LET returned(v, z) ==
            [vorbemerkung |-> v, schlussbestimmung |-> z,
             ret |-> [kind |-> "return", value |-> [Vorbemerkung |-> v, Schlussbestimmung |-> z]]]
        outcome(vor_cut, schluss_cut) ==
            IF "total_header_data" \notin DOMAIN first_meta
            THEN [vorbemerkung |-> vor_cut, schlussbestimmung |-> schluss,
                  ret |-> [kind |-> "KeyError", key |-> "total_header_data"]]
            ELSE returned(
                     clean_section_post_header(vor_cut, first_meta["total_header_data"]),
                     clean_section_post_header(schluss_cut, first_meta["total_header_data"]))
        sections(full_text) ==
            outcome(extract_section_between_text(full_text, S_VorStart, S_VorEnd),
                    extract_section_between_text(full_text, S_SchlussStart, S_SchlussEnd))
    IN  sections(extract_text_from_pdf(texts))

InitMeta ==
    /\ IdleExtractor
    /\ pdf_pages \in BoundedSeq(HeaderTexts, MaxMetaPages)
    /\ pdf_text \in DocumentTexts(Len(pdf_pages))
    /\ headers_first_meta = EmptyDict
    /\ header_meta = <<>>
    /\ vorbemerkung = EmptyStr
    /\ schlussbestimmung = EmptyStr
    /\ call = NoCall
    /\ ret = None

CallHeaderFromPage ==
    \E p \in -1..(Len(pdf_pages) + 1) :
        /\ call' = [op |-> "extract_header_from_page", arg |-> p]
        /\ ret' = extract_header_from_page(pdf_pages, p)
        /\ UNCHANGED <<extractor_vars, run_vars, meta_vars>>

\* LVMetadataExtractor.extract_first_header
CallFirstHeader ==
    LET headers == extract_header_from_page(pdf_pages, 1)
    IN  /\ call' = [op |-> "extract_first_header"]
        /\ ret' = headers
        /\ headers_first_meta' =
               IF headers.kind = "return" THEN headers.value ELSE headers_first_meta
        /\ UNCHANGED <<extractor_vars, run_vars, pdf_pages, header_meta, text_vars>>

CallAllHeaders ==
    /\ call' = [op |-> "extract_all_headers"]
    /\ header_meta' = AllHeaders(pdf_pages, 1)
    /\ ret' = [kind |-> "return", value |-> header_meta']
    /\ UNCHANGED <<extractor_vars, run_vars, pdf_pages, headers_first_meta, text_vars>>

CallVorbestimmungAndSchlussbestimmung ==
    \E r \in {extract_vorbestimmung_and_schlussbestimmung(
                  pdf_text, headers_first_meta, vorbemerkung, schlussbestimmung)} :
        /\ call' = [op |-> "extract_vorbestimmung_and_schlussbestimmung"]
        /\ vorbemerkung' = r.vorbemerkung
        /\ schlussbestimmung' = r.schlussbestimmung
        /\ ret' = r.ret
        /\ UNCHANGED <<extractor_vars, run_vars, pdf_pages, headers_first_meta, header_meta,
                       pdf_text>>

NextMeta ==
    \/ CallHeaderFromPage
    \/ CallFirstHeader
    \/ CallAllHeaders
    \/ CallVorbestimmungAndSchlussbestimmung

SpecMeta == InitMeta /\ [][NextMeta]_vars

----------------------------------------------------------------------------
(* The claims about the position assembly *)

\* a step of ReadLine: one more raw line, line', has been processed
LineStep == nlines' = nlines + 1

\* the columns of a record that finalization leaves as they are
KeptColumns ==
    {"Section", "SectionHint", "Position", "MainDescription", "Quantity", "Unit", "Page"}

\* the SectionHint values of the records assembled so far, open or emitted
HintsOf(rs, cur) == {rs[k].SectionHint : k \in DOMAIN rs} \cup {cur[k].SectionHint : k \in DOMAIN cur}

\* C1: when extract() has finished, every record opened by a position-start
\* line is in the result collection exactly once: as many records were emitted
\* as were opened, and no record is still open.
C1_OpenedRecordsEmittedOnce ==
    pc = "extracted" => (current = NoCurrent /\ Len(rows) = opened)

\* C2: at most one record is open; a position-start or section-header line
\* processed while a record is open first finalizes that record and appends it
\* to the result collection, with the section and fields it had before the
\* line (its description cleaned by the finalization), and only then is the
\* new record opened or the section changed.
C2_FinalizeBeforeOpenOrSection ==
    [][(/\ LineStep
        /\ current # NoCurrent
        /\ (section_pattern(strip(line')).ok \/ pos_pattern(strip(line')).ok))
       => (/\ Len(current') <= 1
           /\ rows' = _finalize_current_position(Self).rows
           /\ Len(rows') = Len(rows) + 1
           /\ SubSeq(rows', 1, Len(rows)) = rows
           /\ \A col \in KeptColumns : rows'[Len(rows')][col] = current[1][col]
           /\ IF section_pattern(strip(line')).ok
              THEN /\ current' = NoCurrent
                   /\ section' = strip(section_pattern(strip(line')).g2)
              ELSE /\ Len(current') = 1
                   /\ current'[1].Position = pos_pattern(strip(line')).g1
                   /\ current'[1].Section = section
                   /\ section' = section)]_vars

\* C2 witness: a section header has just closed a record that was opened
\* before any section: the record was emitted with the section it had (none)
\* and the section is now set.
C2_Witness ==
    /\ pc = "lines"
    /\ line # None
    /\ section_pattern(strip(line)).ok
    /\ current = NoCurrent
    /\ Len(rows) = 1
    /\ rows[1].Section = None
    /\ rows[1].Quantity # None
    /\ Truthy(section)

\* the scenario of C3, as one page which is the last one
C3_ScenarioRows ==
    _process_lines(NewExtractor(None), <<L_Erdarbeiten, L_SomeHint, L_Aushub, L_Qty350>>,
                   1, TRUE).rows

\* C3: text is appended to the pending hint buffer only while a section is set
\* and no record is open; whenever a record is open the buffer is empty; a line
\* processed while a record is open ends up in no record's section_hint; and
\* the lines "10 Erdarbeiten", "some hint", "1...1 Aushub", "3,50 m3" give one
\* record with section_hint "some hint", quantity "3,50" and unit "m3".
C3_HintOnlyWhileNoRecordOpen ==
    /\ [](/\ (current # NoCurrent => section_hint = EmptyStr)
          /\ Len(C3_ScenarioRows) = 1
          /\ C3_ScenarioRows[1].SectionHint = L_SomeHint
          /\ C3_ScenarioRows[1].Quantity = <<"3", ",", "5", "0">>
          /\ C3_ScenarioRows[1].Unit = <<"m", "3">>)
    /\ [][LineStep =>
            /\ (section_hint' # section_hint /\ section_hint' # EmptyStr)
                  => (/\ Truthy(section) /\ current = NoCurrent
                      /\ current' = NoCurrent
                      /\ section_hint' = (IF Truthy(section_hint)
                                          THEN section_hint \o <<" ">> \o strip(line')
                                          ELSE strip(line')))
            /\ current # NoCurrent
                  => (/\ section_hint' = EmptyStr
                      /\ HintsOf(rows', current') \subseteq HintsOf(rows, current) \cup {None})]_vars

\* C3 witness: under a section a hint was accumulated, a position opened with
\* it, and the same text read while the record was open went to the
\* description, not to a hint.
C3_Witness ==
    /\ current # NoCurrent
    /\ current[1].SectionHint = L_SomeHint
    /\ current[1].DetailedDescription = L_SomeHint
    /\ section_hint = EmptyStr

\* C4: the end of a page that is not the last one changes no assembly state;
\* a record opened on page N stays open across the boundary, a quantity/unit
\* or description line of a later page is attached to it, and its page field
\* is N from opening to finalization.
C4_PageBoundaryKeepsState ==
    [][/\ (pc' = "page" /\ page_number' # page_number)
            => UNCHANGED <<rows, section, current, section_hint>>
       /\ (LineStep /\ opened' = opened + 1)
            => (Len(current') = 1 /\ current'[1].Page = page_number)
       /\ (current # NoCurrent /\ current' # NoCurrent /\ opened' = opened)
            => current'[1].Page = current[1].Page
       /\ (current # NoCurrent /\ rows' # rows)
            => (rows' = Append(rows, rows'[Len(rows')])
                /\ rows'[Len(rows')].Page = current[1].Page)
       /\ (/\ LineStep /\ current # NoCurrent /\ current[1].Page < page_number
           /\ strip(line') # EmptyStr
           /\ ~section_pattern(strip(line')).ok /\ ~pos_pattern(strip(line')).ok)
            => IF qty_pattern(strip(line')).ok
               THEN current' = <<[current[1] EXCEPT
                                    !.Quantity = qty_pattern(strip(line')).g1,
                                    !.Unit = qty_pattern(strip(line')).g2]>>
               ELSE \/ (\E tok \in skip_tokens : startswith(strip(line'), tok)) /\ current' = current
                    \/ current' = <<[current[1] EXCEPT !.DetailedDescription =
                                        IF Truthy(@) THEN @ \o <<" ">> \o strip(line')
                                        ELSE strip(line')]>>]_vars

\* C4 witness: a record opened on page 1 is open on page 2 and has got its
\* quantity and unit from a line of page 2.
C4_Witness ==
    /\ page_number = 2
    /\ pc = "lines"
    /\ nlines = 2
    /\ current # NoCurrent
    /\ current[1].Page = 1
    /\ current[1].Quantity = <<"0", ",", "1", "2", "5">>
    /\ current[1].Unit = <<"t">>

\* C5: every record in the result collection has a detailed_description that
\* is the missing marker or a non-empty string, never the empty string.
C5_DescriptionNeverEmptyString ==
    \A k \in DOMAIN rows : rows[k].DetailedDescription # EmptyStr

----------------------------------------------------------------------------
(* The claims about the number normalizer and the post-processing *)

\* the index of the last c in x, 0 when x has none
LastIndexOf(x, c) ==
    LET I == {k \in DOMAIN x : x[k] = c}
    IN  IF I = {} THEN 0 ELSE CHOOSE k \in I : \A j \in I : j <= k

NotDotOrSpace(ch) == ch \notin {".", " "}

\* the four cases of the claim, read on the string x
NormalizerCases(x) ==
    LET c == LastIndexOf(x, ",")
        d == LastIndexOf(x, ".")
    IN  IF c # 0
        THEN SelectSeq(SubSeq(x, 1, c - 1), NotDotOrSpace) \o <<".">> \o SubSeq(x, c + 1, Len(x))
        ELSE IF d # 0 /\ Len(x) - d <= 2
        THEN SelectSeq(SubSeq(x, 1, d - 1), NotDotOrSpace) \o <<".">> \o SubSeq(x, d + 1, Len(x))
        ELSE IF d # 0
        THEN SelectSeq(x, NotDotOrSpace)
        ELSE strip(x)

\* C6, as stated: for every input string the normalizer returns what the four
\* cases give on the input; a missing value is returned unchanged.
C6_NormalizerCasesOnInput ==
    call.op = "_normalize_number" =>
        ret = (IF call.arg = None THEN None ELSE NormalizerCases(call.arg))

\* C6, amended: the normalizer first strips the whitespace around the input
\* and returns what the four cases give on the stripped string; a missing
\* value is returned unchanged; "3.350,50" -> "3350.50", "3.350.000" ->
\* "3350000", "1234.50" -> "1234.50", "1 234,75" -> "1234.75", "42" -> "42".
C6_NormalizerCasesOnStrippedInput ==
    call.op = "_normalize_number" =>
        /\ ret = (IF call.arg = None THEN None ELSE NormalizerCases(strip(call.arg)))
        /\ call.arg = N_3350_50 => ret = <<"3", "3", "5", "0", ".", "5", "0">>
        /\ call.arg = N_3350000 => ret = <<"3", "3", "5", "0", "0", "0", "0">>
        /\ call.arg = N_1234_50 => ret = <<"1", "2", "3", "4", ".", "5", "0">>
        /\ call.arg = N_1_234_75 => ret = <<"1", "2", "3", "4", ".", "7", "5">>
        /\ call.arg = N_42 => ret = <<"4", "2">>

\* C6 witness: "1.5 " has been normalized: the stripped string ends in a one
\* digit fraction and the result is "1.5".
C6_Witness ==
    /\ call.op = "_normalize_number"
    /\ call.arg = <<"1", ".", "5", " ">>
    /\ ret = <<"1", ".", "5">>

\* C7: post-processing is idempotent: the steps of main() applied to the table
\* main() returned leave every value unchanged.
C7_PostProcessingIdempotent ==
    pc = "done" => post_process(df) = df

HasHint(d, k) == d[k].SectionHint # None

\* the rows of the group of row k that have a hint and come before, or after, row k
HintedBefore(d, k) ==
    {j \in 1..(k - 1) : d[j].position_level_1 = d[k].position_level_1 /\ HasHint(d, j)}
HintedAfter(d, k) ==
    {j \in (k + 1)..Len(d) : d[j].position_level_1 = d[k].position_level_1 /\ HasHint(d, j)}

\* C8: after hint propagation, in every group of records with the same
\* position_level_1 either no record has a section_hint or every record has
\* one: a record without a hint receives the nearest preceding hint of its
\* group or, if none precedes it, the nearest following one, and a record
\* with a hint keeps it.
C8_HintPropagationInGroup ==
    call.op = "fill_hint_columns" =>
        LET d == call.arg
        IN  /\ Len(ret) = Len(d)
            /\ \A k \in DOMAIN d :
                  /\ ret[k].position_level_1 = d[k].position_level_1
                  /\ ret[k].SectionHint =
                        (IF HasHint(d, k) THEN d[k].SectionHint
                         ELSE IF HintedBefore(d, k) # {}
                         THEN d[Maximum(HintedBefore(d, k))].SectionHint
                         ELSE IF HintedAfter(d, k) # {}
                         THEN d[Minimum(HintedAfter(d, k))].SectionHint
                         ELSE None)
            /\ \A j, k \in DOMAIN d :
                  d[j].position_level_1 = d[k].position_level_1
                      => (HasHint(ret, j) <=> HasHint(ret, k))

\* C8 witness: two records with position_level_1 = 3, only the second has a
\* hint; after the propagation both carry it.
C8_Witness ==
    /\ call.op = "fill_hint_columns"
    /\ call.arg = <<[position_level_1 |-> 3, SectionHint |-> None],
                    [position_level_1 |-> 3, SectionHint |-> L_SomeHint]>>
    /\ ret = <<[position_level_1 |-> 3, SectionHint |-> L_SomeHint],
               [position_level_1 |-> 3, SectionHint |-> L_SomeHint]>>

\* C9: after the full pipeline a record's section_hint is the hint it was
\* assembled with or a hint assembled for a position of the same section: a
\* hint accumulated under one section header is never copied onto a record of
\* a different section.
C9_HintStaysWithinSection ==
    pc = "done" =>
        \A k \in DOMAIN df :
            df[k].SectionHint # None =>
                \/ df[k].SectionHint = rows[k].SectionHint
                \/ \E j \in DOMAIN rows :
                      /\ rows[j].Section = rows[k].Section
                      /\ rows[j].SectionHint = df[k].SectionHint

----------------------------------------------------------------------------
(* The claims about the handlers of a line *)

\* what a quantity/unit line does to the record that is open: the raw numeric
\* token and the unit token are stored, nothing else changes
QuantityUnitStored(m) ==
    /\ current' = <<[current[1] EXCEPT !.Quantity = m.g1, !.Unit = m.g2]>>
    /\ UNCHANGED <<rows, section, section_hint, metadata_header, opened, page_number, df>>

\* no record has got a quantity or a unit
NoQuantityUnitSet ==
    /\ rows' = rows
    /\ \A k \in DOMAIN current' : current'[k].Quantity = None /\ current'[k].Unit = None

\* C13, as stated: whenever a record is open and the line begins with a numeric
\* token (digits and dots, optionally a comma fraction), whitespace and a
\* non-whitespace unit token, the line sets the record's quantity to the raw
\* numeric token and its unit to the unit token, keeps the record open and
\* changes nothing else; with no record open such a line sets no quantity or
\* unit on any record.
C13_NumericLineSetsQuantityUnit ==
    [][(LineStep /\ qty_pattern(strip(line')).ok) =>
          IF current # NoCurrent
          THEN QuantityUnitStored(qty_pattern(strip(line')))
          ELSE NoQuantityUnitSet]_vars

\* C13, amended: the same for a line that is neither a section header nor a
\* position start; those two handlers come first and take a line such as
\* "10 Erdarbeiten" or "1...1 Aushub", which begins like a quantity/unit line.
C13_QuantityLineSetsQuantityUnit ==
    [][(LineStep /\ qty_pattern(strip(line')).ok) =>
          IF current # NoCurrent
          THEN (~section_pattern(strip(line')).ok /\ ~pos_pattern(strip(line')).ok)
                   => QuantityUnitStored(qty_pattern(strip(line')))
          ELSE NoQuantityUnitSet]_vars

\* C13 witness: a record that was open with a description has got its
\* quantity and unit from the line just read, and kept its description.
C13_Witness ==
    /\ pc = "lines"
    /\ line = L_Qty0125
    /\ current # NoCurrent
    /\ current[1].DetailedDescription = L_SomeHint
    /\ current[1].Quantity = <<"0", ",", "1", "2", "5">>
    /\ current[1].Unit = <<"t">>
    /\ rows = <<>>

\* the record that the position-start match m opens
OpenedRecord(m) ==
    [Section |-> section,
     SectionHint |-> IF section_hint = EmptyStr THEN None ELSE strip(section_hint),
     Position |-> m.g1,
     MainDescription |-> m.g2,
     DetailedDescription |-> EmptyStr,
     Quantity |-> None,
     Unit |-> None,
     Page |-> page_number]

\* C15: a position-start line opens a record whose section is the current
\* section (missing before any header), whose section_hint is the trimmed
\* pending hint or missing when the pending hint is empty, whose position and
\* main_description are the captured id and the remaining text, whose quantity
\* and unit are missing and whose page is the page being processed, and it
\* clears the pending hint.  Of the positions under one section header only
\* the first can have a section_hint: once a position is open a record stays
\* open until the next section header or the end of the document, and a
\* position-start line read while a record is open opens its record without
\* a hint.
C15_PositionStartOpensRecord ==
    [][/\ (LineStep /\ pos_pattern(strip(line')).ok) =>
             /\ current' = <<OpenedRecord(pos_pattern(strip(line')))>>
             /\ section_hint' = EmptyStr
             /\ section' = section
             /\ current # NoCurrent => current'[1].SectionHint = None
       /\ (current # NoCurrent /\ current' = NoCurrent) =>
             \/ LineStep /\ section_pattern(strip(line')).ok
             \/ pc' = "extracted"]_vars

\* C15 witness: under one section header, on two pages, the first position was
\* opened with the pending hint and the second one without a hint.
C15_Witness ==
    /\ Len(rows) = 1
    /\ rows[1].SectionHint = L_SomeHint
    /\ rows[1].Page = 1
    /\ current # NoCurrent
    /\ current[1].Section = rows[1].Section
    /\ current[1].Section # None
    /\ current[1].SectionHint = None
    /\ current[1].Page = 2
    /\ section_hint = EmptyStr

\* C16: the current section changes only when a section-header line is
\* processed, which sets it to the captured name and empties the pending hint;
\* every other line, a page boundary and a finalization leave it unchanged;
\* the section stored in a record, open or emitted, never changes afterwards.
C16_SectionSetOnlyByHeader ==
    [][/\ (LineStep /\ strip(line') # EmptyStr /\ section_pattern(strip(line')).ok) =>
             /\ section' = section_pattern(strip(line')).g2
             /\ section_hint' = EmptyStr
       /\ ~(LineStep /\ strip(line') # EmptyStr /\ section_pattern(strip(line')).ok) =>
             section' = section
       /\ Len(rows') >= Len(rows)
       /\ \A k \in DOMAIN rows : rows'[k].Section = rows[k].Section
       /\ current # NoCurrent =>
             \/ current' # NoCurrent /\ opened' = opened /\ rows' = rows
                    /\ current'[1].Section = current[1].Section
             \/ Len(rows') = Len(rows) + 1
                    /\ rows'[Len(rows')].Section = current[1].Section]_vars

\* C16 witness: a record opened under one section was emitted with that
\* section when the header of the next section came, and the current section
\* is the new one.
C16_Witness ==
    /\ pc = "lines"
    /\ line = L_Erdarbeiten
    /\ section = SubSeq(L_Erdarbeiten, 4, Len(L_Erdarbeiten))
    /\ current = NoCurrent
    /\ section_hint = EmptyStr
    /\ Len(rows) = 1
    /\ rows[1].Section = None
    /\ rows[1].DetailedDescription = L_SomeHint

\* a step of Classify: the raw line call.arg has been processed
ClassifyStep == call.op = "input" /\ call'.op = "_process_lines"

\* the outcomes of the four handlers that answer "consumed", in the order of
\* the loop body, each called on its own on the object self
Handlers(self, ln, page) ==
    <<_process_section_header(self, ln), _process_position(self, ln, page),
      _process_quantity_unit(self, ln), _process_section_hint(self, ln)>>

\* post is self after the first handler of hs that consumes the line, or after
\* the description handler when none does; a handler that does not consume
\* the line leaves self as it is
ConsumedByFirst(self, ln, hs, post) ==
    /\ \A k \in DOMAIN hs : ~hs[k].ret => hs[k].self = self
    /\ \E first \in {FirstOrZero({k \in DOMAIN hs : hs[k].ret})} :
          post = IF first = 0 THEN _process_detailed_description(self, ln)
                 ELSE hs[first].self

\* C14: each trimmed non-empty line is consumed by exactly one handler, the
\* first applicable one in the order section header, position start,
\* quantity/unit, section hint, detailed description, and no later handler
\* changes state for that line; "12 Maurerarbeiten" is handled as a section
\* header and "1...2 Mauerwerk" as a position start; no line matches both the
\* section-header and the position-start pattern.
C14_FirstApplicableHandlerOnly ==
    [][ClassifyStep =>
          /\ strip(call.arg) # EmptyStr =>
                ConsumedByFirst(Self, strip(call.arg),
                                Handlers(Self, strip(call.arg), page_number), Self')
          /\ call.arg = L_Maurerarbeiten =>
                (/\ section' = SubSeq(L_Maurerarbeiten, 4, Len(L_Maurerarbeiten))
                 /\ current' = NoCurrent
                 /\ section_hint' = EmptyStr)
          /\ call.arg = L_Mauerwerk =>
                (/\ Len(current') = 1
                 /\ current'[1].Position = SubSeq(L_Mauerwerk, 1, 5)
                 /\ current'[1].MainDescription = SubSeq(L_Mauerwerk, 7, Len(L_Mauerwerk))
                 /\ section' = section)
          /\ ~(section_pattern(strip(call.arg)).ok /\ pos_pattern(strip(call.arg)).ok)]_vars

\* C14 witness: with a record open, a line that the position pattern and the
\* quantity/unit pattern both match has closed the record and opened the
\* next one, and has set no quantity.
C14_Witness ==
    /\ call.op = "_process_lines"
    /\ call.arg = <<"1", ".", ".", ".", "2", " ", "m">>
    /\ qty_pattern(call.arg).ok
    /\ Len(rows) = 1
    /\ current # NoCurrent
    /\ current[1].Position = <<"1", ".", ".", ".", "2">>
    /\ current[1].Quantity = None

\* C17: the quantity/unit handler accepts a line only when its numeric token
\* starts with a run of at least one digit; a line whose first token starts
\* with a dot, or is made of dots only, is never taken as a quantity/unit line
\* and sets neither the quantity nor the unit of the open record.
C17_NumericTokenStartsWithDigit ==
    [][ClassifyStep =>
          /\ _process_quantity_unit(Self, strip(call.arg)).ret =>
                strip(call.arg)[1] \in Digits
          /\ (strip(call.arg) # EmptyStr /\ strip(call.arg)[1] = "." /\ current # NoCurrent) =>
                /\ current' # NoCurrent
                /\ current'[1].Quantity = current[1].Quantity
                /\ current'[1].Unit = current[1].Unit]_vars

----------------------------------------------------------------------------
(* The claims about the description cleanup *)

\* the index after the span that starts at index a of s: prefix stands at a and
\* the span ends with the first caption that begins after the prefix; 0 when
\* no span starts at a
SpanEnd(s, a, prefix, caption) ==
    LET j == MatchItems(s, a, prefix, 1)
        ends == {MatchItems(s, c, caption, 1) : c \in j..Len(s)} \ {0}
    IN  IF j = 0 \/ ends = {} THEN 0 ELSE Minimum(ends)

HasSpan(s, prefix, caption) == \E a \in DOMAIN s : SpanEnd(s, a, prefix, caption) # 0

\* s from index i on with its spans, taken from left to right, replaced by filler
RECURSIVE WithoutSpans(_, _, _, _, _)
WithoutSpans(s, i, prefix, caption, filler) ==
    LET starts == {a \in i..Len(s) : SpanEnd(s, a, prefix, caption) # 0}
        a == Minimum(starts)
    IN  IF starts = {} THEN SubSeq(s, i, Len(s))
        ELSE SubSeq(s, i, a - 1) \o filler
                 \o WithoutSpans(s, SpanEnd(s, a, prefix, caption), prefix, caption, filler)

\* the company name as the patterns take it: any case, any whitespace for a space
CompanyName(header) == company_pattern(header["Unternehmen"])

\* the description without the three kinds of span, one kind after the other,
\* with its whitespace normalized
WithoutBoilerplate(header, desc, filler) ==
    LET d1 == WithoutSpans(desc, 1, UebertragPattern, EpGpPattern, filler)
        d2 == IF "Unternehmen" \in DOMAIN header
              THEN WithoutSpans(d1, 1, CompanyName(header), EpGpPattern, filler)
              ELSE d1
        d3 == IF "Unternehmen" \in DOMAIN header
              THEN WithoutSpans(d2, 1, CompanyName(header), Literal(S_Signature), filler)
              ELSE d2
    IN  strip(CollapseWs(d3, 1))

NoBoilerplate(header, desc) ==
    /\ ~HasSpan(desc, UebertragPattern, EpGpPattern)
    /\ "Unternehmen" \in DOMAIN header =>
          /\ ~HasSpan(desc, CompanyName(header), EpGpPattern)
          /\ ~HasSpan(desc, CompanyName(header), Literal(S_Signature))

\* no whitespace at either end, no whitespace but single spaces
WhitespaceNormal(s) ==
    /\ \A k \in DOMAIN s : s[k] \in Whitespace => (s[k] = " " /\ k > 1 /\ k < Len(s))
    /\ \A k \in 1..(Len(s) - 1) : ~(s[k] = " " /\ s[k + 1] = " ")

----------------------------------------------------------------------------
(* The claims about the metadata extractor *)

\* C10: header extraction for page p of a document of N pages raises the
\* range error naming p and the range 1..N exactly when p < 1 or p > N,
\* extracting nothing and leaving the stored metadata as it is; for
\* 1 <= p <= N it raises no range error and returns that page's header mapping.
C10_PageRangeError ==
    /\ [](call.op = "extract_header_from_page" =>
            LET p == call.arg
                N == Len(pdf_pages)
            IN  /\ (ret.kind = "IndexError") <=> (p < 1 \/ p > N)
                /\ ret.kind = "IndexError" =>
                      ret = [kind |-> "IndexError", page_number |-> p, first |-> 1, last |-> N]
                /\ (1 <= p /\ p <= N) =>
                      ret = [kind |-> "return", value |-> extract_header_metadata(pdf_pages[p])])
    /\ [][call'.op = "extract_header_from_page" => UNCHANGED meta_vars]_vars

\* C10 witness: on a document of two pages whose first header is stored,
\* page 3 was asked for and the range error names 3 and 1..2.
C10_Witness ==
    /\ call.op = "extract_header_from_page"
    /\ Len(pdf_pages) = 2
    /\ call.arg = 3
    /\ ret = [kind |-> "IndexError", page_number |-> 3, first |-> 1, last |-> 2]
    /\ headers_first_meta # EmptyDict
    /\ header_meta # <<>>

\* C11: a missing header-metadata field never raises in an operation that
\* consumes the metadata, in any order of the calls and also after a header
\* extraction that gave the empty mapping: the extraction of the Vorbemerkung
\* and the Schlussbestimmung always returns its two texts.
C11_MissingMetadataNeverRaises ==
    call.op = "extract_vorbestimmung_and_schlussbestimmung" =>
        /\ ret.kind = "return"
        /\ DOMAIN ret.value = {"Vorbemerkung", "Schlussbestimmung"}

====
